---- MODULE Spec2Model ----
(***************************************************************************)
(* PagerDutyAlerting (litellm/integrations/pagerduty/pagerduty.py): the    *)
(* sliding-window failure-rate alerting engine.                            *)
(*                                                                         *)
(* async_log_failure_event is a coroutine on a single-threaded event loop: *)
(* lines 44-98 run without suspension (read the clock, check the payload,  *)
(* append, prune, evaluate, build the alert and issue the send), the       *)
(* coroutine suspends at the await of line 98, and line 104 (the clear)    *)
(* runs when the send returns.  A send that raises skips line 104.         *)
(* Time is in whole seconds and the clock never runs backwards.            *)
(***************************************************************************)
EXTENDS Integers, Sequences, FiniteSets, TLC

VARIABLES
    environ,          \* os.getenv("PAGERDUTY_API_KEY")
    engine,           \* the PagerDutyAlerting object: how __init__ ended, and
                      \* which of its attributes exist
    failure_events,   \* self._failure_events
    alerting_config,  \* self.alerting_config, a dict
    clock,            \* the last reading of datetime.now(timezone.utc), in seconds
    calls,            \* one record per call of async_log_failure_event, in call order
    sent,             \* the calls of send_alert_to_pagerduty, in call order
    ret               \* the last direct application of a helper (SpecFn only)

vars == <<environ, engine, failure_events, alerting_config, clock, calls, sent, ret>>

----------------------------------------------------------------------------
(* Bounds of the model. *)

MaxIngest == 3        \* calls of async_log_failure_event in a behaviour of Spec
MaxTicks == 2         \* the clock of Spec reads 0, 10, ..., 10 * MaxTicks seconds
ScenarioIngest == 4   \* calls of async_log_failure_event in SpecScenario
BurstIngest == 6       \* calls of async_log_failure_event in SpecBurst
SteadyIngest == 5      \* calls of async_log_failure_event in SpecSteady
MaxStoreLen == 6      \* length of the stores SpecFn starts from
MaxErrorsArg == 6     \* largest max_errors SpecFn passes

\* The clock readings of Spec, and those of SpecScenario: the scenario's
\* 0, 10, 20 and 80 seconds, and 70 seconds, just inside the window of 20.
SpecTimes == {10 * k : k \in 0..MaxTicks}
ScenarioTimes == {0, 10, 20, 70, 80}

----------------------------------------------------------------------------
(* Python values. *)

None == "<None>"                  \* Python's None where a str is expected
EmptyDict == <<>>                 \* {}

\* d.get(key, default) on a dict modelled as a function; a key bound to None
\* is modelled as a missing key (both give the default of every .get here).
DictGet(d, key, default) == IF key \in DOMAIN d THEN d[key] ELSE default

\* StrOr testing `is None` only: an empty str is let through.
StrOr_noneOnly(x, y) == IF x = None THEN y ELSE x

\* `x or y` for an optional str: None and "" are falsy.
StrOr(x, y) == IF x = None \/ x = "" THEN y ELSE x

Min(a, b) == IF a <= b THEN a ELSE b
Max(a, b) == IF a >= b THEN a ELSE b

\* seq[start:] with Python's index rules: a negative start counts from the
\* end, and both ends are clamped.  Note -0 = 0, so seq[-0:] is all of seq.
PySliceFrom(seq, start) ==
    LET n == Len(seq)
        from == IF start < 0 THEN Max(n + start, 0) ELSE Min(start, n)
    IN  SubSeq(seq, from + 1, n)

----------------------------------------------------------------------------
(* Configuration (lines 79-82). *)

DefaultWindowSeconds == 60
DefaultThreshold == 1
DefaultMaxErrors == 5

WindowSeconds(config) ==
    DictGet(config, "failure_threshold_window_seconds", DefaultWindowSeconds)

Threshold(config) == DictGet(config, "failure_threshold", DefaultThreshold)

MakeConfig(hasW, w, hasT, t) ==
    [k \in (IF hasW THEN {"failure_threshold_window_seconds"} ELSE {})
           \cup (IF hasT THEN {"failure_threshold"} ELSE {})
       |-> IF k = "failure_threshold" THEN t ELSE w]

\* The AlertingConfig dicts a behaviour of Spec may be constructed with: the
\* defaults, windows of 0 and 10 seconds, thresholds below, at and above 1.
Configs ==
    {MakeConfig(FALSE, 0, FALSE, 0),
     MakeConfig(TRUE, 0, FALSE, 0),
     MakeConfig(TRUE, 10, TRUE, 2),
     MakeConfig(FALSE, 0, TRUE, 2),
     MakeConfig(FALSE, 0, TRUE, 0),
     MakeConfig(TRUE, 0, TRUE, -1)}

ScenarioConfig == MakeConfig(TRUE, 60, TRUE, 3)

----------------------------------------------------------------------------
(* Notifications: the kwargs of async_log_failure_event. *)

\* kwargs without "standard_logging_object".
KwargsMissing == EmptyDict

\* a payload with error_information and metadata
KwargsFull ==
    [standard_logging_object |->
        [error_information |->
            [error_class |-> "RateLimitError", error_code |-> "429",
             llm_provider |-> "openai"],
         metadata |-> [user_api_key_hash |-> "hash-1",
                       user_api_key_team_id |-> "team-1"]]]

\* a payload with neither error_information nor metadata
KwargsBare == [standard_logging_object |-> EmptyDict]

\* a payload whose classification is partly absent, partly empty
KwargsPartial ==
    [standard_logging_object |->
        [error_information |-> [error_class |-> "Timeout", error_code |-> ""]]]

\* the notifications of Spec, and those of SpecScenario
SpecKwargs == {KwargsFull, KwargsMissing}
ScenarioKwargs == {KwargsFull, KwargsBare}

----------------------------------------------------------------------------
(* FailureEvent (lines 61-75).  `id` is not a field of the source's        *)
(* TypedDict: it stands for the identity of the dict object, so that two   *)
(* events with equal fields can be told apart.                             *)

\* FailureEvent with "unknown" as the default of the classification fields.
FailureEvent_unknown(now, standard_logging_payload, id) ==
    LET _event_metadata == DictGet(standard_logging_payload, "metadata", EmptyDict)
        error_info == DictGet(standard_logging_payload, "error_information", EmptyDict)
    IN  [timestamp |-> now,
         error_class |-> DictGet(error_info, "error_class", "unknown"),
         error_code |-> DictGet(error_info, "error_code", "unknown"),
         error_llm_provider |-> DictGet(error_info, "llm_provider", "unknown"),
         user_api_key_hash |-> DictGet(_event_metadata, "user_api_key_hash", None),
         user_api_key_alias |-> DictGet(_event_metadata, "user_api_key_alias", None),
         user_api_key_org_id |-> DictGet(_event_metadata, "user_api_key_org_id", None),
         user_api_key_team_id |-> DictGet(_event_metadata, "user_api_key_team_id", None),
         user_api_key_user_id |-> DictGet(_event_metadata, "user_api_key_user_id", None),
         user_api_key_team_alias |->
             DictGet(_event_metadata, "user_api_key_team_alias", None),
         user_api_key_end_user_id |->
             DictGet(_event_metadata, "user_api_key_end_user_id", None),
         id |-> id]

FailureEvent(now, standard_logging_payload, id) ==
    LET _event_metadata == DictGet(standard_logging_payload, "metadata", EmptyDict)
        error_info == DictGet(standard_logging_payload, "error_information", EmptyDict)
    IN  [timestamp |-> now,
         error_class |-> DictGet(error_info, "error_class", None),
         error_code |-> DictGet(error_info, "error_code", None),
         error_llm_provider |-> DictGet(error_info, "llm_provider", None),
         user_api_key_hash |-> DictGet(_event_metadata, "user_api_key_hash", None),
         user_api_key_alias |-> DictGet(_event_metadata, "user_api_key_alias", None),
         user_api_key_org_id |-> DictGet(_event_metadata, "user_api_key_org_id", None),
         user_api_key_team_id |-> DictGet(_event_metadata, "user_api_key_team_id", None),
         user_api_key_user_id |-> DictGet(_event_metadata, "user_api_key_user_id", None),
         user_api_key_team_alias |->
             DictGet(_event_metadata, "user_api_key_team_alias", None),
         user_api_key_end_user_id |->
             DictGet(_event_metadata, "user_api_key_end_user_id", None),
         id |-> id]

----------------------------------------------------------------------------
(* Helpers (lines 161-187). *)

\* KeepsEvent with `>=` for `>`: an event stamped exactly at the cutoff survives.
KeepsEvent_inclusive(fe, cutoff) == fe.timestamp >= cutoff

\* line 166: `_timestamp and _timestamp > cutoff`; a datetime is always truthy.
KeepsEvent(fe, cutoff) == fe.timestamp > cutoff

\* lines 163-167: the loop over self._failure_events, `kept` being the local list.
RECURSIVE PruneLoop(_, _, _)
PruneLoop(events, cutoff, kept) ==
    IF events = <<>> THEN kept
    ELSE PruneLoop(Tail(events), cutoff,
                   IF KeepsEvent(Head(events), cutoff)
                   THEN Append(kept, Head(events)) ELSE kept)

\* _prune_failure_events keeping the surviving events in reverse order.
_prune_failure_events_reversed(store, cutoff) ==
    LET kept == PruneLoop(store, cutoff, <<>>)
    IN  [i \in 1..Len(kept) |-> kept[Len(kept) + 1 - i]]

\* the value of self._failure_events after _prune_failure_events(cutoff)
_prune_failure_events(store, cutoff) == PruneLoop(store, cutoff, <<>>)

\* lines 180-186: one line of the digest
Summary(fe) ==
    StrOr(fe.error_class, "N/A") \o " (code: " \o StrOr(fe.error_code, "N/A")
        \o ", provider: " \o StrOr(fe.error_llm_provider, "N/A") \o ")"

\* RecentEvents slicing [:max_errors]: the oldest events, not the most recent.
RecentEvents_oldest(store, max_errors) ==
    SubSeq(store, 1, Min(max_errors, Len(store)))

\* line 176
RecentEvents(store, max_errors) == PySliceFrom(store, 0 - max_errors)

_build_error_summaries(store, max_errors) ==
    LET recent_events == RecentEvents(store, max_errors)
    IN  [i \in 1..Len(recent_events) |-> Summary(recent_events[i])]

----------------------------------------------------------------------------
(* async_log_failure_event (lines 39-104). *)

\* line 50
PayloadIsNone(kwargs) == "standard_logging_object" \notin DOMAIN kwargs

\* ThresholdCrossed one event early, and with `>` for `>=`.
ThresholdCrossed_early(count, threshold) == count >= threshold - 1
ThresholdCrossed_strict(count, threshold) == count > threshold

\* ThresholdCrossed with `self._failure_events and` before the comparison.
ThresholdCrossed_nonempty(count, threshold) == count > 0 /\ count >= threshold

\* line 87
ThresholdCrossed(count, threshold) == count >= threshold

\* Cutoff with the window added to the clock reading.
Cutoff_added(now, window_seconds) == now + window_seconds

\* line 83
Cutoff(now, window_seconds) == now - window_seconds

\* lines 88-101: the arguments of send_alert_to_pagerduty, and who called it
Alert(store, window_seconds, by) ==
    [by |-> by,
     alert_message |-> [failures |-> Len(store), window_seconds |-> window_seconds],
     custom_details |->
         [recent_errors |-> _build_error_summaries(store, DefaultMaxErrors)]]

\* StoreAfterSend without line 104's assignment.
StoreAfterSend_kept(store) == store

\* line 104, reached when the await of line 98 returns
StoreAfterSend(store) == <<>>

\* StoreAfterSendRaises with the clear in a `finally`.
StoreAfterSendRaises_cleared(store) == <<>>

\* the await of line 98 raises: line 104 is not reached
StoreAfterSendRaises(store) == store

\* SyncSection with the event appended before the payload is checked.
SyncSection_appendFirst(store, config, now, kwargs, id) ==
    LET appended == Append(store,
            FailureEvent(now, DictGet(kwargs, "standard_logging_object", EmptyDict),
                         id))
        post == _prune_failure_events(appended, Cutoff(now, WindowSeconds(config)))
    IN  IF PayloadIsNone(kwargs)
        THEN [raised |-> TRUE, appended |-> appended, post |-> appended,
              crossed |-> FALSE, store |-> appended]
        ELSE [raised |-> FALSE, appended |-> appended, post |-> post,
              crossed |-> ThresholdCrossed(Len(post), Threshold(config)),
              store |-> post]

\* SyncSection with the assignment of line 104 placed before the send.
SyncSection_clearFirst(store, config, now, kwargs, id) ==
    IF PayloadIsNone(kwargs)
    THEN [raised |-> TRUE, appended |-> store, post |-> store,
          crossed |-> FALSE, store |-> store]
    ELSE LET appended == Append(store,
                 FailureEvent(now, kwargs["standard_logging_object"], id))
             post == _prune_failure_events(appended,
                         Cutoff(now, WindowSeconds(config)))
             crossed == ThresholdCrossed(Len(post), Threshold(config))
         IN  [raised |-> FALSE, appended |-> appended, post |-> post,
              crossed |-> crossed, store |-> IF crossed THEN <<>> ELSE post]

\* Lines 44-98, the part of the coroutine that runs before its first
\* suspension.  `raised`: the ValueError of line 51; `store`: the value of
\* self._failure_events when the section ends; `crossed`: line 87's test, on
\* which the alert is built and send_alert_to_pagerduty is called.
SyncSection(store, config, now, kwargs, id) ==
    IF PayloadIsNone(kwargs)
    THEN [raised |-> TRUE, appended |-> store, post |-> store,
          crossed |-> FALSE, store |-> store]
    ELSE LET appended == Append(store,
                 FailureEvent(now, kwargs["standard_logging_object"], id))
             window_seconds == WindowSeconds(config)
             threshold == Threshold(config)
             post == _prune_failure_events(appended, Cutoff(now, window_seconds))
         IN  [raised |-> FALSE, appended |-> appended, post |-> post,
              crossed |-> ThresholdCrossed(Len(post), threshold), store |-> post]

\* The calls suspended at the await of line 98.
InFlight == {i \in DOMAIN calls : calls[i].state = "awaiting"}

----------------------------------------------------------------------------
(* __init__ (lines 27-37). *)

RoutingKey == "routing-key"

\* ApiKeyMissing testing `is None` only: an empty key is accepted.
ApiKeyMissing_noneOnly(_api_key) == _api_key = None

\* line 29: `not _api_key`
ApiKeyMissing(_api_key) == _api_key = None \/ _api_key = ""

\* no object yet
NotConstructed == [state |-> "none", api_key |-> None, has_store |-> FALSE]

\* __init__ raised at line 30: self.api_key and self._failure_events were
\* never assigned, and the caller holds no object.
ConstructionFailed == [state |-> "ValueError", api_key |-> None, has_store |-> FALSE]

\* __init__ ran to its end: lines 31-35 assigned the attributes.
Constructed(_api_key) ==
    [state |-> "constructed", api_key |-> _api_key, has_store |-> TRUE]

NoRet == [op |-> "none", arg |-> 0, before |-> <<>>, store |-> <<>>, lines |-> <<>>]

Init ==
    /\ environ = RoutingKey
    /\ engine = Constructed(RoutingKey)
    /\ failure_events = <<>>
    /\ alerting_config \in Configs
    /\ clock = 0
    /\ calls = <<>>
    /\ sent = <<>>
    /\ ret = NoRet

\* One call of async_log_failure_event, up to its return, its raise or its
\* suspension at the await.  The clock is read once, at line 44, and is not
\* behind its previous reading.
Ingest(kwargsSet, maxIngest, times) ==
    /\ engine.state = "constructed"
    /\ Len(calls) < maxIngest
    /\ \E kwargs \in kwargsSet, now \in times :
        /\ now >= clock
        /\ LET id == Len(calls) + 1
               r == SyncSection(failure_events, alerting_config, now, kwargs, id)
           IN  /\ failure_events' = r.store
               /\ calls' = Append(calls,
                      [id |-> id, now |-> now, kwargs |-> kwargs,
                       valid |-> ~r.raised,
                       inflight |-> InFlight, pre |-> failure_events,
                       appended |-> r.appended, post |-> r.post,
                       crossed |-> r.crossed,
                       state |-> IF r.raised THEN "ValueError"
                                 ELSE IF r.crossed THEN "awaiting" ELSE "returned",
                       resumed |-> failure_events', after |-> failure_events'])
               /\ sent' = IF r.crossed
                          THEN Append(sent, Alert(r.post,
                                                  WindowSeconds(alerting_config), id))
                          ELSE sent
        /\ clock' = now
    /\ UNCHANGED <<environ, engine, alerting_config, ret>>

\* The send of call i returns: the coroutine resumes and runs line 104.
SendReturns ==
    \E i \in DOMAIN calls :
        /\ calls[i].state = "awaiting"
        /\ failure_events' = StoreAfterSend(failure_events)
        /\ calls' = [calls EXCEPT ![i].state = "returned",
                                  ![i].resumed = failure_events,
                                  ![i].after = failure_events']
        /\ UNCHANGED <<environ, engine, alerting_config, clock, sent, ret>>

\* The send of call i raises: the exception leaves async_log_failure_event.
SendRaises ==
    \E i \in DOMAIN calls :
        /\ calls[i].state = "awaiting"
        /\ failure_events' = StoreAfterSendRaises(failure_events)
        /\ calls' = [calls EXCEPT ![i].state = "send_raised",
                                  ![i].resumed = failure_events,
                                  ![i].after = failure_events']
        /\ UNCHANGED <<environ, engine, alerting_config, clock, sent, ret>>

NextWithin(kwargsSet, maxIngest, times) ==
    \/ Ingest(kwargsSet, maxIngest, times)
    \/ SendReturns
    \/ SendRaises

Next == NextWithin(SpecKwargs, MaxIngest, SpecTimes)

Spec == Init /\ [][Next]_vars

\* The scenario of window_seconds=60 and failure_threshold=3, with the clock
\* running to 80 seconds.
InitScenario ==
    /\ environ = RoutingKey
    /\ engine = Constructed(RoutingKey)
    /\ failure_events = <<>>
    /\ alerting_config = ScenarioConfig
    /\ clock = 0
    /\ calls = <<>>
    /\ sent = <<>>
    /\ ret = NoRet

NextScenario == NextWithin(ScenarioKwargs, ScenarioIngest, ScenarioTimes)

SpecScenario == InitScenario /\ [][NextScenario]_vars

\* A burst of failures, the clock reading 0 or 70.  Under a threshold of 5
\* and the default window the store reaches the digest's five lines after a
\* prune, and exceeds them when a call arrives during a send; under a window
\* of 0 seconds every event is behind the cutoff.
BurstConfigs == {MakeConfig(FALSE, 0, TRUE, 5), MakeConfig(TRUE, 0, TRUE, 1)}

BurstTimes == {0, 70}

InitBurst ==
    /\ environ = RoutingKey
    /\ engine = Constructed(RoutingKey)
    /\ failure_events = <<>>
    /\ alerting_config \in BurstConfigs
    /\ clock = 0
    /\ calls = <<>>
    /\ sent = <<>>
    /\ ret = NoRet

NextBurst == NextWithin(ScenarioKwargs, BurstIngest, BurstTimes)

SpecBurst == InitBurst /\ [][NextBurst]_vars

\* Repeated threshold crossings: failure_threshold=2, one kind of payload.
SteadyConfig == MakeConfig(FALSE, 0, TRUE, 2)

SteadyKwargs == {KwargsFull}

SteadyTimes == {0, 10}

InitSteady ==
    /\ environ = RoutingKey
    /\ engine = Constructed(RoutingKey)
    /\ failure_events = <<>>
    /\ alerting_config = SteadyConfig
    /\ clock = 0
    /\ calls = <<>>
    /\ sent = <<>>
    /\ ret = NoRet

NextSteady == NextWithin(SteadyKwargs, SteadyIngest, SteadyTimes)

SpecSteady == InitSteady /\ [][NextSteady]_vars

----------------------------------------------------------------------------
(* Construction: SpecConstruct starts before PagerDutyAlerting(...) is     *)
(* called, with PAGERDUTY_API_KEY unset, empty or set.                     *)

EnvironChoices == {None, "", RoutingKey}

InitConstruct ==
    /\ environ \in EnvironChoices
    /\ engine = NotConstructed
    /\ failure_events = <<>>
    /\ alerting_config = EmptyDict
    /\ clock = 0
    /\ calls = <<>>
    /\ sent = <<>>
    /\ ret = NoRet

\* PagerDutyAlerting(alerting_config=config)
Construct ==
    /\ engine = NotConstructed
    /\ \E config \in Configs :
           IF ApiKeyMissing(environ)
           THEN /\ engine' = ConstructionFailed
                /\ UNCHANGED <<failure_events, alerting_config>>
           ELSE /\ engine' = Constructed(environ)
                /\ alerting_config' = config
                /\ failure_events' = <<>>
    /\ UNCHANGED <<environ, clock, calls, sent, ret>>

NextConstruct == Construct \/ NextWithin(SpecKwargs, MaxIngest, SpecTimes)

SpecConstruct == InitConstruct /\ [][NextConstruct]_vars

----------------------------------------------------------------------------
(* The helpers applied directly to stores of up to MaxStoreLen events.     *)

FnTimes == {0, 10, 20}
FnWindows == {0, 10, 60}
FnPayloads == {KwargsBare, KwargsPartial}

FnEvents ==
    {FailureEvent(t, kw["standard_logging_object"], 0) :
        t \in FnTimes, kw \in FnPayloads}

\* The stores the engine can hold: events in the order they were appended,
\* each stamped with a clock reading not behind the previous one.
ChronologicalStores ==
    {[i \in DOMAIN s |-> [s[i] EXCEPT !.id = i]] :
        s \in {q \in UNION {[1..n -> FnEvents] : n \in 0..MaxStoreLen} :
                  \A i \in 1..(Len(q) - 1) : q[i].timestamp <= q[i + 1].timestamp}}

InitFn ==
    /\ environ = RoutingKey
    /\ engine = Constructed(RoutingKey)
    /\ failure_events \in ChronologicalStores
    /\ alerting_config = EmptyDict
    /\ clock = IF failure_events = <<>> THEN 0
               ELSE failure_events[Len(failure_events)].timestamp
    /\ calls = <<>>
    /\ sent = <<>>
    /\ ret = NoRet

\* self._prune_failure_events(now - timedelta(seconds=window_seconds))
PruneStep ==
    \E now \in FnTimes, window_seconds \in FnWindows :
        /\ now >= clock
        /\ clock' = now
        /\ failure_events' =
               _prune_failure_events(failure_events, Cutoff(now, window_seconds))
        /\ ret' = [op |-> "prune", arg |-> Cutoff(now, window_seconds),
                   before |-> failure_events, store |-> failure_events',
                   lines |-> <<>>]
        /\ UNCHANGED <<environ, engine, alerting_config, calls, sent>>

\* self._build_error_summaries(max_errors)
BuildStep ==
    \E max_errors \in 0..MaxErrorsArg :
        /\ ret' = [op |-> "summaries", arg |-> max_errors,
                   before |-> failure_events, store |-> failure_events,
                   lines |-> _build_error_summaries(failure_events, max_errors)]
        /\ UNCHANGED <<environ, engine, failure_events, alerting_config, clock, calls, sent>>

NextFn == PruneStep \/ BuildStep

SpecFn == InitFn /\ [][NextFn]_vars

----------------------------------------------------------------------------
(* Properties. *)

\* The sends that call i issued.
AlertsBy(i) == {k \in DOMAIN sent : sent[k].by = i}

\* The events of a store, by identity.
Ids(store) == {store[k].id : k \in DOMAIN store}

\* C1: an ingestion whose post-prune retained count is >= failure_threshold
\* dispatches exactly one alert, and when its send returns normally the store
\* is empty as the ingestion completes.
ThresholdMonotonicity ==
    \A i \in DOMAIN calls :
        (calls[i].valid /\ Len(calls[i].post) >= Threshold(alerting_config)) =>
            /\ Cardinality(AlertsBy(i)) = 1
            /\ calls[i].state \in {"awaiting", "returned", "send_raised"}
            /\ calls[i].state = "returned" => calls[i].after = <<>>

\* A crossing at two retained events, after an earlier ingestion below the
\* threshold, with the send returned.
ThresholdMonotonicityWitness ==
    \E i \in DOMAIN calls :
        /\ Threshold(alerting_config) = 2
        /\ calls[i].valid /\ Len(calls[i].post) = 2
        /\ calls[i].state = "returned"
        /\ Cardinality(AlertsBy(i)) = 1
        /\ failure_events = <<>>

\* C2: an ingestion whose post-prune retained count is < failure_threshold
\* dispatches nothing, and when no ingestion of the sequence reaches the
\* threshold send_alert_to_pagerduty is never called.
NoPrematureAlert ==
    /\ \A i \in DOMAIN calls :
           (calls[i].valid /\ Len(calls[i].post) < Threshold(alerting_config)) =>
               AlertsBy(i) = {}
    /\ (\A i \in DOMAIN calls :
           ~calls[i].valid \/ Len(calls[i].post) < Threshold(alerting_config)) =>
               sent = <<>>

\* Two ingestions, the second of which holds two events before pruning and
\* one after it, under a threshold of two: nothing was sent.
NoPrematureAlertWitness ==
    /\ Len(calls) >= 2
    /\ \E i \in DOMAIN calls :
           /\ calls[i].valid
           /\ Len(calls[i].appended) >= Threshold(alerting_config)
           /\ Len(calls[i].post) = 1
           /\ Len(calls[i].post) < Threshold(alerting_config)
    /\ sent = <<>>

\* The indices of the events of s that are newer than the cutoff.
NewerIndices(s, cutoff) == {i \in DOMAIN s : s[i].timestamp > cutoff}

\* C3: after _prune_failure_events(cutoff) the store is exactly the
\* subsequence of the events with timestamp > cutoff, in their former order:
\* its k-th event is the k-th such event of the store before.
WindowCorrectness ==
    ret.op = "prune" =>
        LET K == NewerIndices(ret.before, ret.arg)
        IN  /\ Len(ret.store) = Cardinality(K)
            /\ \A k \in DOMAIN ret.store :
                   \E i \in K : /\ Cardinality({j \in K : j <= i}) = k
                                /\ ret.store[k] = ret.before[i]

\* A prune that removes an event older than the cutoff and one stamped
\* exactly at it, and keeps two newer ones.
WindowCorrectnessWitness ==
    /\ ret.op = "prune"
    /\ \E i \in DOMAIN ret.before : ret.before[i].timestamp < ret.arg
    /\ \E i \in DOMAIN ret.before : ret.before[i].timestamp = ret.arg
    /\ Len(ret.store) = 2
    /\ ret.store[1] # ret.store[2]

\* C4: every event removed by an ingestion's clear was in the store when
\* that ingestion evaluated the threshold, and so was counted in the alert it
\* dispatched: a clear never discards what a concurrent ingestion appended.
ClearDiscardsOnlyCounted ==
    \A i \in DOMAIN calls :
        calls[i].state = "returned" /\ calls[i].crossed =>
            Ids(calls[i].resumed) \subseteq Ids(calls[i].post)

\* C5: each failure event is counted toward at most one dispatched alert: an
\* ingestion that runs while another one's send is in flight sends no alert
\* that counts an event the alert in flight counted.
SingleDeduplicatedPage ==
    \A a, b \in DOMAIN sent :
        sent[a].by \in calls[sent[b].by].inflight =>
            Ids(calls[sent[a].by].post) \cap Ids(calls[sent[b].by].post) = {}

\* C6 as stated: after an ingestion whose send raised, the store is empty.
TransportFailureClears ==
    \A i \in DOMAIN calls :
        calls[i].state = "send_raised" => calls[i].after = <<>>

\* C6 as amended: an ingestion whose send raised has dispatched its one alert
\* and leaves the store as it was when the send raised; with a threshold
\* >= 1 and no other ingestion in between, that is the non-empty store the
\* alert counted.
TransportFailureKeepsStore ==
    \A i \in DOMAIN calls :
        calls[i].state = "send_raised" =>
            /\ Cardinality(AlertsBy(i)) = 1
            /\ calls[i].after = calls[i].resumed
            /\ (calls[i].resumed = calls[i].post /\ Threshold(alerting_config) >= 1) =>
                   /\ calls[i].after # <<>>
                   /\ Len(calls[i].after) >= Threshold(alerting_config)

\* A send that raised with two counted events, which are still the store.
TransportFailureKeepsStoreWitness ==
    \E i \in DOMAIN calls :
        /\ calls[i].state = "send_raised"
        /\ Len(calls[i].post) = 2
        /\ calls[i].after = calls[i].post
        /\ failure_events = calls[i].post

\* C7: a call without standard_logging_object raises, leaves the store as it
\* found it and dispatches nothing.
MalformedInputLeavesStore ==
    \A i \in DOMAIN calls :
        ~calls[i].valid =>
            /\ calls[i].state = "ValueError"
            /\ calls[i].after = calls[i].pre
            /\ AlertsBy(i) = {}
            /\ i = Len(calls) /\ calls[i].inflight = InFlight =>
                   failure_events = calls[i].pre

\* A call without payload, made at 20 seconds under a window of 10 seconds
\* on a store that holds an event of 0 seconds: the event is still there.
MalformedInputLeavesStoreWitness ==
    \E i \in DOMAIN calls :
        /\ ~calls[i].valid
        /\ i = Len(calls)
        /\ calls[i].pre # <<>>
        /\ calls[i].pre[1].timestamp < Cutoff(calls[i].now, WindowSeconds(alerting_config))
        /\ failure_events = calls[i].pre

\* C8: _build_error_summaries(max_errors=5) returns min(5, store size) lines,
\* never more than 5, and for a store of more than 5 events the lines of its
\* 5 last events, in the store's order.
SummaryBounding ==
    (ret.op = "summaries" /\ ret.arg = 5) =>
        LET n == Len(ret.before)
        IN  /\ Len(ret.lines) = (IF n < 5 THEN n ELSE 5)
            /\ Len(ret.lines) <= 5
            /\ n > 5 => \A k \in 1..5 : ret.lines[k] = Summary(ret.before[n - 5 + k])

\* A digest of a store of 6 events whose first and last events render
\* differently, so that the last 5 differ from the first 5.
SummaryBoundingWitness ==
    /\ ret.op = "summaries" /\ ret.arg = 5
    /\ Len(ret.before) = 6
    /\ Len(ret.lines) = 5
    /\ Summary(ret.before[1]) # Summary(ret.before[6])
    /\ ret.lines[5] = Summary(ret.before[6])

\* The calls so far are valid ones made at the given clock readings.
CalledAt(times) ==
    /\ Len(calls) = Len(times)
    /\ \A i \in DOMAIN calls : calls[i].valid /\ calls[i].now = times[i]

\* C9: with window_seconds=60 and failure_threshold=3, ingestions at 0, 10
\* and 20 seconds dispatch nothing on the 1st and 2nd and one alert on the
\* 3rd, whose completion (the send having returned) leaves the store empty;
\* a 4th ingestion at 80 seconds leaves only its own event in the store and
\* dispatches nothing.
Scenario60x3 ==
    /\ (CalledAt(<<0, 10, 20>>) \/ CalledAt(<<0, 10, 20, 80>>)) =>
           /\ AlertsBy(1) = {} /\ AlertsBy(2) = {}
           /\ Cardinality(AlertsBy(3)) = 1
           /\ sent[1].alert_message.failures = 3
           /\ calls[3].state = "returned" => calls[3].after = <<>>
    /\ CalledAt(<<0, 10, 20, 80>>) =>
           /\ Len(calls[4].post) = 1
           /\ calls[4].post[1].id = 4
           /\ calls[4].after = calls[4].post
           /\ AlertsBy(4) = {}
           /\ Len(sent) = 1

\* The four ingestions, the 3rd one's send returned before the 4th began,
\* and the store holding the 4th event alone.
Scenario60x3Witness ==
    /\ CalledAt(<<0, 10, 20, 80>>)
    /\ calls[3].state = "returned"
    /\ calls[4].pre = <<>>
    /\ Len(failure_events) = 1
    /\ failure_events[1].timestamp = 80

\* Call i began with no earlier call suspended in its send and no earlier
\* send having raised.
AfterNormalCompletions(i) ==
    /\ calls[i].inflight = {}
    /\ \A j \in 1..(i - 1) : calls[j].state # "send_raised"

\* With failure_threshold=1, an ingestion that follows normally completed
\* ones starts from an empty store and dispatches one alert reporting 1
\* failure.
DispatchesOneOfOne(i) ==
    (calls[i].valid /\ AfterNormalCompletions(i)) =>
        /\ calls[i].pre = <<>>
        /\ Cardinality(AlertsBy(i)) = 1
        /\ \A k \in AlertsBy(i) : sent[k].alert_message.failures = 1

NonPositiveThresholdAlwaysCrossed ==
    Threshold(alerting_config) <= 0 =>
        \A i \in DOMAIN calls :
            calls[i].valid =>
                /\ calls[i].crossed
                /\ Cardinality(AlertsBy(i)) = 1

\* An ingestion under a negative threshold whose post-prune store is empty,
\* and its alert of 0 failures.
NonPositiveThresholdAlwaysCrossedWitness ==
    /\ Threshold(alerting_config) < 0
    /\ \E i \in DOMAIN calls :
           /\ calls[i].valid
           /\ calls[i].post = <<>>
           /\ \E k \in AlertsBy(i) : sent[k].alert_message.failures = 0

\* What a digest line shows for a classification field.
Shown(x) == IF x \in {None, ""} THEN "N/A" ELSE x

\* The event that line k of the lines returned for a store describes: the
\* lines are those of the store's last events.
LineEvent(store, lines, k) == store[Len(store) - Len(lines) + k]

\* C12: an event whose error class, error code and provider are all absent
\* renders as "N/A (code: N/A, provider: N/A)", and in every line each
\* absent (None or empty) field, and only it, is replaced by "N/A".
PlaceholderSubstitution ==
    ret.op = "summaries" =>
        \A k \in DOMAIN ret.lines :
            LET fe == LineEvent(ret.before, ret.lines, k)
            IN  /\ ({fe.error_class, fe.error_code, fe.error_llm_provider}
                        \subseteq {None, ""}) =>
                       ret.lines[k] = "N/A (code: N/A, provider: N/A)"
                /\ ret.lines[k] =
                       Shown(fe.error_class) \o " (code: " \o Shown(fe.error_code)
                           \o ", provider: " \o Shown(fe.error_llm_provider) \o ")"

\* A digest with the line of an event without classification and the line
\* of one with a class, an empty code and no provider.
PlaceholderSubstitutionWitness ==
    /\ ret.op = "summaries"
    /\ \E k \in DOMAIN ret.lines :
           /\ LineEvent(ret.before, ret.lines, k).error_class = None
           /\ ret.lines[k] = "N/A (code: N/A, provider: N/A)"
    /\ \E k \in DOMAIN ret.lines :
           /\ LineEvent(ret.before, ret.lines, k).error_code = ""
           /\ ret.lines[k] = "Timeout (code: N/A, provider: N/A)"

\* C13: with PAGERDUTY_API_KEY absent or empty, construction fails with the
\* ValueError before the event store exists, and no ingestion ever runs; an
\* engine that was constructed holds a non-empty key.
NoEngineWithoutSecret ==
    /\ environ \in {None, ""} =>
           /\ engine \in {NotConstructed, ConstructionFailed}
           /\ ~engine.has_store
           /\ calls = <<>> /\ sent = <<>>
    /\ engine.state = "constructed" =>
           engine.api_key = environ /\ engine.api_key \notin {None, ""}
    /\ calls # <<>> => engine.state = "constructed"

\* The construction attempted with an empty key, and failed.
NoEngineWithoutSecretWitness ==
    environ = "" /\ engine = ConstructionFailed

\* C14: the append, the prune and the threshold test of an ingestion run
\* with no store operation of another ingestion in between: the store it
\* tests is the store it found plus its own event, pruned, and whenever that
\* store holds >= failure_threshold events the ingestion has started its
\* dispatch.
NoLostWakeup ==
    \A i \in DOMAIN calls :
        calls[i].valid =>
            /\ Len(calls[i].appended) = Len(calls[i].pre) + 1
            /\ SubSeq(calls[i].appended, 1, Len(calls[i].pre)) = calls[i].pre
            /\ calls[i].appended[Len(calls[i].appended)].id = i
            /\ Ids(calls[i].post) \subseteq Ids(calls[i].appended)
            /\ Len(calls[i].post) >= Threshold(alerting_config) =>
                   /\ calls[i].state # "returned" \/ calls[i].after = <<>>
                   /\ \E k \in AlertsBy(i) :
                          sent[k].alert_message.failures = Len(calls[i].post)

\* An ingestion that starts while an earlier one is suspended in its send,
\* finds the threshold of 2 reached and starts its own dispatch.
NoLostWakeupWitness ==
    \E i \in DOMAIN calls :
        /\ Threshold(alerting_config) = 2
        /\ calls[i].inflight # {}
        /\ Len(calls[i].post) >= 2
        /\ calls[i].state = "awaiting"
        /\ AlertsBy(i) # {}

\* C15: every alert is built from the store its ingestion left after the
\* prune: the count is that store's size, the window is the configured one,
\* recent_errors are the summaries of its last min(5, size) events in store
\* order; and the store still holds those events when the ingestion is
\* suspended in the send, the clear coming only after the send returns.
AlertFromStoreBeforeClear ==
    /\ \A k \in DOMAIN sent :
           LET store == calls[sent[k].by].post
               n == Len(store)
               m == Min(DefaultMaxErrors, n)
               recent_errors == sent[k].custom_details.recent_errors
           IN  /\ calls[sent[k].by].crossed
               /\ sent[k].alert_message.failures = n
               /\ sent[k].alert_message.window_seconds
                      = WindowSeconds(alerting_config)
               /\ Len(recent_errors) = m
               /\ \A j \in 1..m : recent_errors[j] = Summary(store[n - m + j])
    /\ \A i \in DOMAIN calls :
           /\ calls[i].state = "awaiting" =>
                  AlertsBy(i) # {} /\ calls[i].after = calls[i].post
           /\ calls[i].crossed /\ calls[i].state = "returned" =>
                  calls[i].after = <<>>

\* An alert on a store of six events whose five lines are not the summaries
\* of the store's first five events, its ingestion still suspended in the
\* send.
AlertFromStoreBeforeClearWitness ==
    \E k \in DOMAIN sent :
        LET i == sent[k].by
            store == calls[i].post
        IN  /\ calls[i].state = "awaiting"
            /\ Len(store) = 6
            /\ sent[k].alert_message.failures = 6
            /\ Len(sent[k].custom_details.recent_errors) = 5
            /\ sent[k].custom_details.recent_errors
                   # [j \in 1..5 |-> Summary(store[j])]

\* C16: for every store and every max_errors >= 0, 0 and values above the
\* store's size included, _build_error_summaries(max_errors) returns exactly
\* min(max_errors, store size) lines: those of the store's last events, in
\* the store's order.
SummariesExactCount ==
    ret.op = "summaries" =>
        LET n == Len(ret.before)
            m == Min(ret.arg, n)
        IN  /\ Len(ret.lines) = m
            /\ \A k \in 1..Min(m, Len(ret.lines)) :
                   ret.lines[k] = Summary(ret.before[n - m + k])

\* C17: in every reachable state, whatever the interleaving of ingestions
\* and sends, the store is in insertion order and that order is
\* chronological: timestamps never decrease along self._failure_events.
StoreChronological ==
    \A i \in 1..(Len(failure_events) - 1) :
        /\ failure_events[i].id < failure_events[i + 1].id
        /\ failure_events[i].timestamp <= failure_events[i + 1].timestamp

\* A store holding events of two clock readings, appended by ingestions that
\* ran while a send was in flight.
StoreChronologicalWitness ==
    /\ Len(failure_events) >= 2
    /\ failure_events[1].timestamp < failure_events[Len(failure_events)].timestamp
    /\ \E i \in DOMAIN calls :
           calls[i].inflight # {} /\ \E j \in DOMAIN failure_events :
                                        failure_events[j].id = i

\* The notification of call i carries no error class, code or provider.
NoClassification(i) ==
    LET payload == calls[i].kwargs["standard_logging_object"]
    IN  DOMAIN DictGet(payload, "error_information", EmptyDict)
            \cap {"error_class", "error_code", "llm_provider"} = {}

\* The FailureEvent call i appended (lines 60-76).
StoredEvent(i) == calls[i].appended[Len(calls[i].appended)]

\* C18, as stated: the event stored for a notification without error class,
\* code or provider holds "unknown" in each of the three fields.
AbsentClassificationStoredUnknown ==
    \A i \in DOMAIN calls :
        calls[i].valid /\ NoClassification(i) =>
            /\ StoredEvent(i).error_class = "unknown"
            /\ StoredEvent(i).error_code = "unknown"
            /\ StoredEvent(i).error_llm_provider = "unknown"

\* C18, amended: the event stored for a notification without error class,
\* code or provider holds None in each of the three fields; a placeholder
\* ("N/A") appears only in the line _build_error_summaries renders of it.
AbsentClassificationStoredNone ==
    \A i \in DOMAIN calls :
        calls[i].valid /\ NoClassification(i) =>
            /\ StoredEvent(i).id = i
            /\ StoredEvent(i).error_class = None
            /\ StoredEvent(i).error_code = None
            /\ StoredEvent(i).error_llm_provider = None
            /\ Summary(StoredEvent(i)) = "N/A (code: N/A, provider: N/A)"

\* A notification without classification whose event is in the store and
\* in a dispatched alert.
AbsentClassificationStoredNoneWitness ==
    \E i \in DOMAIN calls :
        /\ calls[i].valid /\ NoClassification(i)
        /\ \E j \in DOMAIN failure_events : failure_events[j] = StoredEvent(i)
        /\ AlertsBy(i) # {}

\* No ingestion started while a send was in flight, and no send raised.
NonOverlappingAndSendsReturn ==
    \A i \in DOMAIN calls :
        calls[i].inflight = {} /\ calls[i].state # "send_raised"

\* C19: with failure_threshold >= 1, ingestions that do not overlap and
\* sends that return, the store holds fewer than failure_threshold events
\* after every completed ingestion, and two alerts are at least
\* failure_threshold ingestions apart.
IdleInvariant ==
    (Threshold(alerting_config) >= 1 /\ NonOverlappingAndSendsReturn) =>
        /\ \A i \in DOMAIN calls :
               calls[i].state = "returned" =>
                   Len(calls[i].after) < Threshold(alerting_config)
        /\ InFlight = {} => Len(failure_events) < Threshold(alerting_config)
        /\ \A a, b \in DOMAIN sent :
               a < b => sent[b].by - sent[a].by >= Threshold(alerting_config)

\* Four ingestions one after the other under a threshold of 2, the second
\* and the fourth having dispatched and completed.
IdleInvariantWitness ==
    /\ Threshold(alerting_config) = 2
    /\ NonOverlappingAndSendsReturn
    /\ Len(calls) >= 4
    /\ Len(sent) = 2
    /\ sent[1].by = 2 /\ sent[2].by = 4
    /\ InFlight = {}

\* C20: with window_seconds >= 1 an ingestion's prune keeps the event that
\* ingestion appended: the store it tests is not empty and ends with its own
\* event, and every alert it dispatches counts >= 1 failures and carries a
\* non-empty recent_errors whose last line is the summary of that event.
\* With window_seconds = 0 the cutoff is the event's own timestamp (and the
\* strict comparison of the prune removes the event).
OwnEventSurvivesPrune ==
    \A i \in DOMAIN calls :
        calls[i].valid =>
            /\ WindowSeconds(alerting_config) >= 1 =>
                   /\ Len(calls[i].post) >= 1
                   /\ calls[i].post[Len(calls[i].post)] = StoredEvent(i)
                   /\ StoredEvent(i).id = i
                   /\ \A k \in AlertsBy(i) :
                          LET recent_errors == sent[k].custom_details.recent_errors
                          IN  /\ sent[k].alert_message.failures >= 1
                              /\ recent_errors # <<>>
                              /\ recent_errors[Len(recent_errors)]
                                     = Summary(StoredEvent(i))
            /\ WindowSeconds(alerting_config) = 0 =>
                   /\ Cutoff(calls[i].now, WindowSeconds(alerting_config))
                          = StoredEvent(i).timestamp
                   /\ i \notin Ids(calls[i].post)

\* A prune that removed an older event and kept the event just appended,
\* and an alert that ends with the line of its ingestion's own event, a line
\* no other event of the alert renders.
OwnEventSurvivesPruneWitness ==
    \E i \in DOMAIN calls, k \in DOMAIN sent :
        LET recent_errors == sent[k].custom_details.recent_errors
        IN  /\ sent[k].by = i
            /\ WindowSeconds(alerting_config) >= 1
            /\ \E c \in 1..i :
                   /\ calls[c].valid
                   /\ 1 <= Len(calls[c].post)
                   /\ Len(calls[c].post) < Len(calls[c].appended)
            /\ recent_errors[Len(recent_errors)] = Summary(StoredEvent(i))
            /\ \A j \in 1..(Len(recent_errors) - 1) :
                   recent_errors[j] # Summary(StoredEvent(i))

====
